---------------------------- MODULE Spec2Model ----------------------------
(***************************************************************************)
(* Model of the odd-one-out curriculum trainer: the WordNet helpers of     *)
(* src/wordnet.py (hypernym chains, hyponym closures, lemma normalization, *)
(* the memoized Specificity score, GetRandomSynset) and the curriculum     *)
(* loop train() of src/multitrain.py.                                      *)
(*                                                                         *)
(* Concepts (synsets) are numbered 1..MaxConcepts; a concept's number      *)
(* stands for its name.  The hierarchy is given by the ordered hypernym    *)
(* list of every concept, as synset.hypernyms() returns it.  Characters    *)
(* are their ASCII codes and a lemma is a sequence of characters.          *)
(* Accuracies are held in percent (0.8 is 80, the sentinel -1.0 is -100).  *)
(***************************************************************************)
EXTENDS Integers, Sequences, FiniteSets, TLC

VARIABLES
    \* the lexical hierarchy (the nltk WordNet corpus, read-only input)
    hypernyms,          \* [Concepts -> Seq(Concepts)]: synset.hypernyms()
    lexicon,            \* which lemma table the corpus holds, see sense_lemmas
    \* normalize_lemma
    lemma_in,           \* the lemma handed to normalize_lemma
    lemma_out,          \* normalize_lemma(lemma_in), once norm_calls >= 1
    lemma_twice,        \* normalize_lemma(lemma_out), once norm_calls = 2
    norm_calls,
    \* Specificity object
    cache,              \* self.cache
    spec_sense,         \* argument of the last evaluate call (None before any)
    spec_ret,           \* value the last evaluate call returned
    spec_hit,           \* history: the last evaluate call found its argument cached
    evaluated,          \* history: the concepts evaluate has been called with
    \* hypernym_chain
    chain_arg, chain_ret,
    \* GetRandomSynset object and its random_non_hyponym loop
    grs_root, entity_hyps, specificities,
    rnh_pc, rnh_synset, rnh_result,
    band_lower, band_upper, \* arguments of the last random_synset_with_specificity
    band_result,            \* what that call returned
    \* train()
    root_synset_lists, num_epochs,
    pc, error, ti,
    initial_root_synset, final_root_synset, current_root,
    epoch, best_model, best_test_acc,
    generator_root, loader, test_loader,
    csv, checkpoint,
    test_acc,           \* maybe_evaluate's test_acc in the epoch that evaluated
    target_start,       \* history: the initial concept the current target began with
    epoch_root          \* history: the active concept when the current epoch began

wnVars   == <<hypernyms, lexicon>>
normVars == <<lemma_in, lemma_out, lemma_twice, norm_calls>>
specVars == <<cache, spec_sense, spec_ret, spec_hit, evaluated>>
chainVars == <<chain_arg, chain_ret>>
grsVars  == <<grs_root, entity_hyps, specificities, rnh_pc, rnh_synset, rnh_result,
              band_lower, band_upper, band_result>>
trainVars == <<root_synset_lists, num_epochs, pc, error, ti, initial_root_synset,
               final_root_synset, current_root, epoch, best_model, best_test_acc,
               generator_root, loader, test_loader, csv, checkpoint, test_acc,
               target_start, epoch_root>>
vars == <<wnVars, normVars, specVars, chainVars, grsVars, trainVars>>

----------------------------------------------------------------------------
(* Bounds of the model *)

MaxConcepts == 4        \* concepts of the hierarchy
MaxLemmaLen == 3        \* longest lemma handed to normalize_lemma (besides the examples)
MaxTargets == 2         \* longest curriculum (root_synset_lists)
MaxEpochs == 200        \* largest epoch budget num_epochs
LemmaBlock == 300       \* lemmas per concept in the large-vocabulary hierarchies

(* Program constants *)

Underscore == 95        \* "_"
Hyphen == 45            \* "-"
Space == 32             \* " "
UpperA == 65            \* "A"
UpperZ == 90            \* "Z"
LowerA == 97            \* "a"
CaseOffset == 32        \* ord("a") - ord("A")
SpecificityThreshold == 700
RegenInterval == 100    \* epoch % 100 == 0
EvalInterval == 100     \* epoch % 100 == 99
EvalPhase == 99
ForcedRegenEpoch == 100 \* the epoch handed to maybe_regenerate on promotion
SuccessThreshold == 80  \* .8
Sentinel == -100        \* -1.0

None == 0               \* Python's None; no concept is numbered 0
Unbound == -1           \* a local variable that was never assigned

Concepts == 1..MaxConcepts

Range(s) == {s[i] : i \in 1..Len(s)}

----------------------------------------------------------------------------
(* src/wordnet.py: hierarchy queries *)

\* synset.hyponyms(): the concepts that list sense among their hypernyms
hyponyms(sense) == {d \in Concepts : sense \in Range(hypernyms[d])}

\* a chain that follows the last hypernym instead of the first
last_hypernym(synset) == hypernyms[synset][Len(hypernyms[synset])]

\* the canonical parent: synset.hypernyms()[0]
first_hypernym(synset) == hypernyms[synset][1]

RECURSIVE chain_loop(_, _)
chain_loop(synset, result) ==
    IF Len(hypernyms[synset]) > 0
    THEN chain_loop(first_hypernym(synset), Append(result, first_hypernym(synset)))
    ELSE result

\* a chain closed by a second copy of its top concept
hypernym_chain_top_twice(synset_name) ==
    Append(chain_loop(synset_name, <<synset_name>>),
           chain_loop(synset_name, <<synset_name>>)[Len(chain_loop(synset_name, <<synset_name>>))])

hypernym_chain(synset_name) == chain_loop(synset_name, <<synset_name>>)

RECURSIVE get_all_hypernyms_from_sense(_)
get_all_hypernyms_from_sense(sense) ==
    Range(hypernyms[sense])
        \cup UNION {get_all_hypernyms_from_sense(y) : y \in Range(hypernyms[sense])}

\* the direct hyponyms only, without the recursive calls
direct_hyponyms_only(sense) == hyponyms(sense)

RECURSIVE get_all_hyponyms_from_sense(_)
get_all_hyponyms_from_sense(sense) ==
    hyponyms(sense) \cup UNION {get_all_hyponyms_from_sense(y) : y \in hyponyms(sense)}

----------------------------------------------------------------------------
(* src/wordnet.py: normalize_lemma *)

\* positions of sep in s
SepPositions(s, sep) == {i \in 1..Len(s) : s[i] = sep}

Min(S) == CHOOSE x \in S : \A y \in S : x <= y
Max(S) == CHOOSE x \in S : \A y \in S : x >= y

\* str.split(sep): the pieces between the occurrences of sep, empty pieces kept
RECURSIVE split(_, _)
split(s, sep) ==
    IF SepPositions(s, sep) = {}
    THEN <<s>>
    ELSE LET i == Min(SepPositions(s, sep))
         IN  <<SubSeq(s, 1, i - 1)>> \o split(SubSeq(s, i + 1, Len(s)), sep)

\* glue.join(parts)
RECURSIVE join(_, _)
join(glue, parts) ==
    IF Len(parts) = 0 THEN <<>>
    ELSE IF Len(parts) = 1 THEN parts[1]
    ELSE parts[1] \o <<glue>> \o join(glue, Tail(parts))

\* str.lower() on ASCII text
lower(s) ==
    [i \in 1..Len(s) |->
        IF s[i] >= UpperA /\ s[i] <= UpperZ THEN s[i] + CaseOffset ELSE s[i]]

\* a normalization that forgets the hyphens
normalize_underscores_only(lemma) == lower(join(Space, split(lemma, Underscore)))

normalize_lemma(lemma) ==
    LET l1 == join(Space, split(lemma, Underscore))
        l2 == join(Space, split(l1, Hyphen))
    IN  lower(l2)

----------------------------------------------------------------------------
(* Inputs: the lemma names of the concepts *)

\* surface forms, several of which normalize to the same token
LemmaAb == <<LowerA, LowerA + 1>>                         \* "ab"
LemmaA_b == <<UpperA, Underscore, LowerA + 1>>            \* "A_b"
LemmaAhb == <<LowerA, Hyphen, UpperA + 1>>                \* "a-B"
LemmaAsb == <<LowerA, Space, LowerA + 1>>                 \* "a b"
LemmaC == <<UpperA + 2>>                                  \* "C"
LemmaLc == <<LowerA + 2>>                                 \* "c"
LemmaD_e == <<LowerA + 3, Underscore, LowerA + 4>>        \* "d_e"

LemmaSets == << {LemmaA_b, LemmaAhb}, {LemmaC, LemmaAb}, {LemmaLc, LemmaD_e},
                {LemmaAsb}, {LemmaAb, LemmaA_b, LemmaC} >>

\* a three-letter word for every number
Word(i) ==
    <<LowerA + ((i \div 676) % 26), LowerA + ((i \div 26) % 26), LowerA + (i % 26)>>

\* the small lexicons: concept c lexicalizes LemmaSets[c + shift]
SmallLexicons == {[kind |-> "small", shift |-> k] : k \in 0..1}

\* the large lexicon: LemmaBlock words of its own for every concept
BlockLexicon == [kind |-> "block", shift |-> 0]

\* the names of sense.lemmas()
sense_lemmas(sense) ==
    IF lexicon.kind = "small"
    THEN LemmaSets[((sense + lexicon.shift) % Len(LemmaSets)) + 1]
    ELSE {Word(i) : i \in ((sense - 1) * LemmaBlock)..(sense * LemmaBlock - 1)}

----------------------------------------------------------------------------
(* src/wordnet.py: Specificity *)

\* a lemma closure that forgets the concept's own lemmas
get_hyponym_lemmas_only(sense) ==
    UNION {{normalize_lemma(l) : l \in sense_lemmas(y)} : y \in get_all_hyponyms_from_sense(sense)}

get_all_lemmas_from_sense(sense) ==
    {normalize_lemma(l) : l \in sense_lemmas(sense)}
        \cup UNION {{normalize_lemma(l) : l \in sense_lemmas(y)} :
                        y \in get_all_hyponyms_from_sense(sense)}

\* an evaluate that starts the dictionary afresh for every concept it scores
evaluate_cache_afresh(c, sense) ==
    IF sense \notin DOMAIN c
    THEN [k \in {sense} |-> Cardinality(get_all_lemmas_from_sense(sense))]
    ELSE c

\* Specificity.evaluate: the cache after the call, and the value returned
evaluate_cache(c, sense) ==
    IF sense \notin DOMAIN c
    THEN [k \in DOMAIN c \cup {sense} |->
            IF k = sense THEN Cardinality(get_all_lemmas_from_sense(sense)) ELSE c[k]]
    ELSE c

evaluate(c, sense) == evaluate_cache(c, sense)[sense]

EmptyCache == [k \in {} |-> 0]

----------------------------------------------------------------------------
(* Inputs: hierarchies *)

\* ordered hypernym lists of at most two distinct, more general concepts
ParentLists(c) ==
    {<<>>} \cup {<<p>> : p \in 1..(c - 1)}
           \cup {pq \in (1..(c - 1)) \X (1..(c - 1)) : pq[1] # pq[2]}

\* the hypernym tables of the concepts 1..n
RECURSIVE DAGsUpTo(_)
DAGsUpTo(n) ==
    IF n = 0 THEN {<<>>}
    ELSE {Append(h, parents) : h \in DAGsUpTo(n - 1), parents \in ParentLists(n)}

\* every DAG over Concepts whose edges lead from a concept to a lower-numbered one
DAGs == DAGsUpTo(MaxConcepts)

\* a single line of descent: MaxConcepts, ..., 2, 1
LineGraph == [c \in Concepts |-> IF c = 1 THEN <<>> ELSE <<c - 1>>]

\* every concept from 3 on has two hypernyms, the canonical one two levels up
ForkGraph ==
    [c \in Concepts |-> IF c = 1 THEN <<>> ELSE IF c = 2 THEN <<1>> ELSE <<c - 2, c - 1>>]

TrainGraphs == {LineGraph, ForkGraph}

----------------------------------------------------------------------------
(* Initial values of each part of the state *)

NormIdle ==
    /\ lemma_in = <<>> /\ lemma_out = <<>> /\ lemma_twice = <<>> /\ norm_calls = 0

SpecIdle ==
    /\ cache = EmptyCache /\ spec_sense = None /\ spec_ret = None /\ spec_hit = FALSE
    /\ evaluated = {}

ChainIdle == chain_arg = None /\ chain_ret = <<>>

GrsIdle ==
    /\ grs_root = None /\ entity_hyps = {} /\ specificities = EmptyCache
    /\ rnh_pc = "idle" /\ rnh_synset = None /\ rnh_result = None
    /\ band_lower = Unbound /\ band_upper = Unbound /\ band_result = None

TrainIdle ==
    /\ root_synset_lists = <<>> /\ num_epochs = 0
    /\ pc = "done" /\ error = "" /\ ti = 1
    /\ initial_root_synset = Unbound /\ final_root_synset = Unbound
    /\ current_root = Unbound /\ epoch = Unbound
    /\ best_model = "unbound" /\ best_test_acc = Unbound
    /\ generator_root = Unbound /\ loader = Unbound /\ test_loader = Unbound
    /\ csv = <<>> /\ checkpoint = <<>> /\ test_acc = Unbound
    /\ target_start = None /\ epoch_root = None

SmallWordnet == hypernyms \in DAGs /\ lexicon \in SmallLexicons

----------------------------------------------------------------------------
(* normalize_lemma applied to a lemma, and again to its own result *)

\* the sequences over S of length at most n
RECURSIVE SeqsUpTo(_, _)
SeqsUpTo(S, n) ==
    IF n = 0 THEN {<<>>}
    ELSE SeqsUpTo(S, n - 1) \cup {Append(s, x) : s \in SeqsUpTo(S, n - 1), x \in S}

NormAlphabet ==
    {UpperA - 1, UpperA, UpperZ, UpperZ + 1, LowerA, Underscore, Hyphen, Space}

FireEngineUnderscore == <<70, 105, 114, 101, 95, 69, 110, 103, 105, 110, 101>>  \* "Fire_Engine"
FireEngineHyphen == <<102, 105, 114, 101, 45, 101, 110, 103, 105, 110, 101>>    \* "fire-engine"
FireEngineSpace == <<102, 105, 114, 101, 32, 101, 110, 103, 105, 110, 101>>     \* "fire engine"

LemmaInputs ==
    SeqsUpTo(NormAlphabet, MaxLemmaLen) \cup {FireEngineUnderscore, FireEngineHyphen}

NormInit ==
    /\ hypernyms = LineGraph /\ lexicon = BlockLexicon
    /\ lemma_in \in LemmaInputs
    /\ lemma_out = <<>> /\ lemma_twice = <<>> /\ norm_calls = 0
    /\ SpecIdle /\ ChainIdle /\ GrsIdle /\ TrainIdle

Normalize ==
    /\ norm_calls = 0
    /\ lemma_out' = normalize_lemma(lemma_in)
    /\ norm_calls' = 1
    /\ UNCHANGED <<lemma_in, lemma_twice, wnVars, specVars, chainVars, grsVars, trainVars>>

NormalizeAgain ==
    /\ norm_calls = 1
    /\ lemma_twice' = normalize_lemma(lemma_out)
    /\ norm_calls' = 2
    /\ UNCHANGED <<lemma_in, lemma_out, wnVars, specVars, chainVars, grsVars, trainVars>>

NormNext == Normalize \/ NormalizeAgain

NormSpec == NormInit /\ [][NormNext]_vars

----------------------------------------------------------------------------
(* One Specificity object, evaluated on any concepts in any order *)

SpecificityInit ==
    /\ SmallWordnet
    /\ NormIdle /\ SpecIdle /\ ChainIdle /\ GrsIdle /\ TrainIdle

Evaluate(sense) ==
    /\ cache' = evaluate_cache(cache, sense)
    /\ spec_ret' = evaluate(cache, sense)
    /\ spec_sense' = sense
    /\ spec_hit' = (sense \in DOMAIN cache)
    /\ evaluated' = evaluated \cup {sense}
    /\ UNCHANGED <<wnVars, normVars, chainVars, grsVars, trainVars>>

SpecificityNext == \E sense \in Concepts : Evaluate(sense)

SpecificitySpec == SpecificityInit /\ [][SpecificityNext]_vars

----------------------------------------------------------------------------
(* hypernym_chain called on any concept *)

ChainInit ==
    /\ SmallWordnet
    /\ NormIdle /\ SpecIdle /\ ChainIdle /\ GrsIdle /\ TrainIdle

HypernymChain(synset_name) ==
    /\ chain_arg = None
    /\ chain_arg' = synset_name
    /\ chain_ret' = hypernym_chain(synset_name)
    /\ UNCHANGED <<wnVars, normVars, specVars, grsVars, trainVars>>

ChainNext == \E synset_name \in Concepts : HypernymChain(synset_name)

ChainSpec == ChainInit /\ [][ChainNext]_vars

----------------------------------------------------------------------------
(* A GetRandomSynset object, and its rejection loop random_non_hyponym *)

RnhInit ==
    /\ SmallWordnet
    /\ NormIdle /\ SpecIdle /\ ChainIdle /\ GrsIdle /\ TrainIdle

\* GetRandomSynset.__init__
Construct(root_synset) ==
    /\ grs_root = None
    /\ grs_root' = root_synset
    /\ entity_hyps' = get_all_hyponyms_from_sense(root_synset)
    /\ specificities' =
          [hyponym \in get_all_hyponyms_from_sense(root_synset) |->
              evaluate(EmptyCache, hyponym)]
    /\ UNCHANGED <<rnh_pc, rnh_synset, rnh_result, band_lower, band_upper, band_result>>
    /\ UNCHANGED <<wnVars, normVars, specVars, chainVars, trainVars>>

\* a call of random_non_hyponym enters its loop
RnhCall(synset) ==
    /\ grs_root # None
    /\ rnh_pc \in {"idle", "done"}
    /\ rnh_pc' = "loop"
    /\ rnh_synset' = synset
    /\ rnh_result' = None
    /\ UNCHANGED <<grs_root, entity_hyps, specificities, band_lower, band_upper,
                   band_result>>
    /\ UNCHANGED <<wnVars, normVars, specVars, chainVars, trainVars>>

\* a test that looks at the direct hypernyms of the drawn concept only
accepts_unless_parent(synset, result) == synset \notin Range(hypernyms[result])

\* the test of line 200 on a drawn concept
accepts(synset, result) == synset \notin get_all_hypernyms_from_sense(result)

\* one pass of the loop: a draw (random.sample raises on an empty closure) and the test
RnhDraw ==
    /\ rnh_pc = "loop"
    /\ IF entity_hyps = {}
       THEN rnh_pc' = "error" /\ rnh_result' = rnh_result
       ELSE \E result \in entity_hyps :
               /\ rnh_result' = result
               /\ rnh_pc' = IF accepts(rnh_synset, result) THEN "done" ELSE "loop"
    /\ UNCHANGED <<grs_root, entity_hyps, specificities, rnh_synset, band_lower,
                   band_upper, band_result>>
    /\ UNCHANGED <<wnVars, normVars, specVars, chainVars, trainVars>>

RnhNext ==
    \/ \E root_synset \in Concepts : Construct(root_synset)
    \/ \E synset \in Concepts : RnhCall(synset)
    \/ RnhDraw

RnhSpec == RnhInit /\ [][RnhNext]_vars

\* the loop has no other work to wait for: a pass that can be made is made
FairRnhSpec == RnhSpec /\ WF_vars(RnhDraw)

----------------------------------------------------------------------------
(* GetRandomSynset.random_synset_with_specificity on a constructed object *)

\* a band test that leaves both ends out
in_band_exclusive(s, lower_bound, upper_bound) == s > lower_bound /\ s < upper_bound

\* self.specificities[hyp] >= lower and self.specificities[hyp] <= upper
in_band(s, lower_bound, upper_bound) == s >= lower_bound /\ s <= upper_bound

\* candidates of random_synset_with_specificity
candidates(lower_bound, upper_bound) ==
    {hyp \in DOMAIN specificities : in_band(specificities[hyp], lower_bound, upper_bound)}

\* the band ends tried: every score of the object and its two neighbours, and 0
BandEnds ==
    {0} \cup UNION {{specificities[hyp] - 1, specificities[hyp], specificities[hyp] + 1} :
                        hyp \in DOMAIN specificities}

\* lines 188-195: random.choice of the candidates, None when there are none
RandomSynsetWithSpecificity(lower_bound, upper_bound) ==
    /\ grs_root # None
    /\ band_lower' = lower_bound /\ band_upper' = upper_bound
    /\ IF Cardinality(candidates(lower_bound, upper_bound)) > 0
       THEN band_result' \in candidates(lower_bound, upper_bound)
       ELSE band_result' = None
    /\ UNCHANGED <<grs_root, entity_hyps, specificities, rnh_pc, rnh_synset, rnh_result>>
    /\ UNCHANGED <<wnVars, normVars, specVars, chainVars, trainVars>>

BandNext ==
    \/ \E root_synset \in Concepts : Construct(root_synset)
    \/ \E lower_bound \in BandEnds, upper_bound \in BandEnds :
          RandomSynsetWithSpecificity(lower_bound, upper_bound)

BandSpec == RnhInit /\ [][BandNext]_vars

----------------------------------------------------------------------------
(* src/multitrain.py: train() *)

\* the held-out accuracies evaluate() may return, in percent
Accs == {0, SuccessThreshold, SuccessThreshold + 10}

\* a scan of the chain that starts at the initial concept and walks upward
RECURSIVE final_loop_upward(_, _, _)
final_loop_upward(chain, i, spec) ==
    LET k == Len(chain) - i + 1
    IN  IF i = 0 THEN None
        ELSE IF evaluate(spec, chain[k]) < SpecificityThreshold THEN chain[k]
        ELSE final_loop_upward(chain, i - 1, evaluate_cache(spec, chain[k]))

\* a scan from the top with the comparison turned round
RECURSIVE final_loop_above(_, _, _)
final_loop_above(chain, i, spec) ==
    IF i = 0 THEN None
    ELSE IF evaluate(spec, chain[i]) > SpecificityThreshold THEN chain[i]
    ELSE final_loop_above(chain, i - 1, evaluate_cache(spec, chain[i]))

\* for w in chain[::-1]: the scan starts at the top of the chain (i = Len(chain))
\* and walks down; falling off the end returns None
RECURSIVE final_loop(_, _, _)
final_loop(chain, i, spec) ==
    IF i = 0 THEN None
    ELSE IF evaluate(spec, chain[i]) < SpecificityThreshold THEN chain[i]
    ELSE final_loop(chain, i - 1, evaluate_cache(spec, chain[i]))

\* the chain is that of the enclosing initial_root_synset, which line 173 has just
\* set to the concept handed in
get_final_root_synset(initial_synset) ==
    final_loop(hypernym_chain(initial_synset), Len(hypernym_chain(initial_synset)),
               EmptyCache)

\* a regeneration on the evaluation cadence instead of the regeneration cadence
maybe_regenerate_on_eval_phase(puzzle_generator, ep, prev_loader) ==
    IF ep % RegenInterval = EvalPhase THEN puzzle_generator ELSE prev_loader

\* a generation at the first epoch only
maybe_regenerate_at_start_only(puzzle_generator, ep, prev_loader) ==
    IF ep = 0 THEN puzzle_generator ELSE prev_loader

\* what the loaders are made from after maybe_regenerate
maybe_regenerate(puzzle_generator, ep, prev_loader) ==
    IF ep % RegenInterval = 0 THEN puzzle_generator ELSE prev_loader

\* a comparison that also takes an accuracy equal to the best so far
improves_or_ties(acc, prev_best_acc) == acc >= prev_best_acc

\* if test_acc > prev_best_acc
improves(acc, prev_best_acc) == acc > prev_best_acc

\* if best_test_acc > .8
succeeded(acc) == acc > SuccessThreshold

\* a promotion that jumps to the top of the chain
top_of_chain(active) == hypernym_chain(active)[Len(hypernym_chain(active))]

\* a promotion that takes the head of the chain, the active concept itself
head_of_chain(active) == hypernym_chain(active)[1]

\* hypernym_chain(initial_root_synset)[1].name()
promoted_root(active) == hypernym_chain(active)[2]

\* write_to_csv(current_root, epoch, best_test_acc, False)
failure_row == <<current_root, epoch, best_test_acc, FALSE>>

SingleTargets == {<<c>> : c \in Concepts}

\* explicit (initial, final) pairs whose final concept is on the initial one's chain
PairTargets ==
    {t \in Concepts \X Concepts : t[2] \in Range(hypernym_chain(t[1]))}

\* curricula of several targets start from the most specific concepts
LaterTargets == {<<c>> : c \in {MaxConcepts - 1, MaxConcepts}}

Curricula ==
    {<<t>> : t \in PairTargets \cup SingleTargets}
        \cup (SeqsUpTo(LaterTargets, MaxTargets) \ {<<>>})

EpochBudgets == {MaxEpochs \div 4, MaxEpochs \div 2, MaxEpochs}

TrainInit ==
    /\ hypernyms \in TrainGraphs /\ lexicon = BlockLexicon
    /\ NormIdle /\ SpecIdle /\ ChainIdle /\ GrsIdle
    /\ root_synset_lists \in Curricula
    /\ num_epochs \in EpochBudgets
    /\ pc = "next_target" /\ error = "" /\ ti = 1
    /\ initial_root_synset = Unbound /\ final_root_synset = Unbound
    /\ current_root = Unbound /\ epoch = Unbound
    /\ best_model = "unbound" /\ best_test_acc = Unbound
    /\ generator_root = Unbound /\ loader = Unbound /\ test_loader = Unbound
    /\ csv = <<>> /\ checkpoint = <<>> /\ test_acc = Unbound
    /\ target_start = None /\ epoch_root = None

notTrain == <<wnVars, normVars, specVars, chainVars, grsVars>>

\* puzzle_generator.reset_root(root_synset): the concept the generator draws its
\* puzzles from afterwards (section 4.3: one generator per active root concept)
reset_root(puzzle_generator, root_synset) == root_synset

\* lines 172-198: the next target is taken up
StartTarget ==
    /\ pc = "next_target"
    /\ ti <= Len(root_synset_lists)
    /\ LET root_synset_list == root_synset_lists[ti]
       IN  /\ initial_root_synset' = root_synset_list[1]
           /\ final_root_synset' =
                 IF Len(root_synset_list) # 2
                 THEN get_final_root_synset(root_synset_list[1])
                 ELSE root_synset_list[2]
           \* WordnetPuzzleGenerator(final_root_synset), then reset_root
           /\ generator_root' = reset_root(final_root_synset', root_synset_list[1])
           /\ target_start' = root_synset_list[1]
           /\ epoch_root' = root_synset_list[1]
    /\ loader' = None /\ test_loader' = None
    /\ best_model' = "None" /\ best_test_acc' = Sentinel
    /\ IF num_epochs > 0
       THEN epoch' = 0 /\ pc' = "regen" /\ ti' = ti
       ELSE epoch' = epoch /\ pc' = "next_target" /\ ti' = ti + 1
    /\ UNCHANGED <<root_synset_lists, num_epochs, error, current_root, csv, checkpoint>>
    /\ UNCHANGED test_acc
    /\ UNCHANGED notTrain

\* line 233: return best_model
Finish ==
    /\ pc = "next_target"
    /\ ti > Len(root_synset_lists)
    /\ pc' = "done"
    /\ UNCHANGED <<root_synset_lists, num_epochs, error, ti, initial_root_synset,
                   final_root_synset, current_root, epoch, best_model, best_test_acc,
                   generator_root, loader, test_loader, csv, checkpoint, target_start,
                   epoch_root>>
    /\ UNCHANGED test_acc
    /\ UNCHANGED notTrain

\* lines 199-202
MaybeRegenerate ==
    /\ pc = "regen"
    /\ loader' = maybe_regenerate(generator_root, epoch, loader)
    /\ test_loader' = maybe_regenerate(generator_root, epoch, test_loader)
    /\ epoch_root' = initial_root_synset
    /\ pc' = "fit"
    /\ UNCHANGED <<root_synset_lists, num_epochs, error, ti, initial_root_synset,
                   final_root_synset, current_root, epoch, best_model, best_test_acc,
                   generator_root, csv, checkpoint, target_start>>
    /\ UNCHANGED test_acc
    /\ UNCHANGED notTrain

\* lines 203-208: the gradient steps over loader
Fit ==
    /\ pc = "fit"
    /\ pc' = "eval"
    /\ UNCHANGED <<root_synset_lists, num_epochs, error, ti, initial_root_synset,
                   final_root_synset, current_root, epoch, best_model, best_test_acc,
                   generator_root, loader, test_loader, csv, checkpoint, target_start,
                   epoch_root>>
    /\ UNCHANGED test_acc
    /\ UNCHANGED notTrain

\* lines 139-150 and 209-210
MaybeEvaluate ==
    /\ pc = "eval"
    /\ IF epoch % EvalInterval = EvalPhase
       THEN /\ test_acc' \in Accs
            /\ IF improves(test_acc', best_test_acc)
               THEN /\ best_test_acc' = test_acc'
                    /\ best_model' = "model"
                    /\ checkpoint' = <<ti, epoch>>
               ELSE UNCHANGED <<best_test_acc, best_model, checkpoint>>
       ELSE UNCHANGED <<best_test_acc, best_model, checkpoint, test_acc>>
    /\ pc' = "check"
    /\ UNCHANGED <<root_synset_lists, num_epochs, error, ti, initial_root_synset,
                   final_root_synset, current_root, epoch, generator_root, loader,
                   test_loader, csv, target_start, epoch_root>>
    /\ UNCHANGED notTrain

\* lines 212-224: best_test_acc > .8; indexing a chain of one concept raises IndexError
Promote ==
    /\ pc = "check"
    /\ succeeded(best_test_acc)
    /\ current_root' = initial_root_synset
    /\ IF Len(hypernym_chain(initial_root_synset)) < 2
       THEN /\ pc' = "crashed" /\ error' = "IndexError"
            /\ UNCHANGED <<initial_root_synset, generator_root, csv, checkpoint,
                           best_test_acc, loader, test_loader>>
       ELSE /\ initial_root_synset' = promoted_root(initial_root_synset)
            /\ generator_root' = reset_root(generator_root,
                                             promoted_root(initial_root_synset))
            /\ csv' = Append(csv, <<initial_root_synset, epoch, best_test_acc, TRUE>>)
            /\ checkpoint' = <<ti, epoch>>
            /\ best_test_acc' = Sentinel
            /\ loader' = maybe_regenerate(promoted_root(initial_root_synset),
                                          ForcedRegenEpoch, loader)
            /\ test_loader' = maybe_regenerate(promoted_root(initial_root_synset),
                                               ForcedRegenEpoch, test_loader)
            /\ pc' = "exhaust" /\ error' = error
    /\ UNCHANGED <<root_synset_lists, num_epochs, ti, final_root_synset, epoch,
                   best_model, target_start, epoch_root>>
    /\ test_acc' = Unbound
    /\ UNCHANGED notTrain

\* line 212, the test fails
NoPromote ==
    /\ pc = "check"
    /\ ~succeeded(best_test_acc)
    /\ pc' = "exhaust"
    /\ UNCHANGED <<root_synset_lists, num_epochs, error, ti, initial_root_synset,
                   final_root_synset, current_root, epoch, best_model, best_test_acc,
                   generator_root, loader, test_loader, csv, checkpoint, target_start,
                   epoch_root>>
    /\ test_acc' = Unbound
    /\ UNCHANGED notTrain

\* lines 228-231 on the last epoch; current_root is a local of train that only a
\* promotion assigns, so reading it before any promotion raises UnboundLocalError
Exhaust ==
    /\ pc = "exhaust"
    /\ epoch = num_epochs - 1
    /\ IF current_root = Unbound
       THEN /\ pc' = "crashed" /\ error' = "UnboundLocalError"
            /\ UNCHANGED <<csv, ti>>
       ELSE /\ csv' = Append(csv, failure_row)
            /\ pc' = "next_target" /\ ti' = ti + 1
            /\ error' = error
    /\ UNCHANGED <<root_synset_lists, num_epochs, initial_root_synset,
                   final_root_synset, current_root, epoch, best_model, best_test_acc,
                   generator_root, loader, test_loader, checkpoint, target_start,
                   epoch_root>>
    /\ UNCHANGED test_acc
    /\ UNCHANGED notTrain

\* line 228 on any other epoch: the loop goes on
NextEpoch ==
    /\ pc = "exhaust"
    /\ epoch # num_epochs - 1
    /\ epoch' = epoch + 1
    /\ pc' = "regen"
    /\ UNCHANGED <<root_synset_lists, num_epochs, error, ti, initial_root_synset,
                   final_root_synset, current_root, best_model, best_test_acc,
                   generator_root, loader, test_loader, csv, checkpoint, target_start,
                   epoch_root>>
    /\ UNCHANGED test_acc
    /\ UNCHANGED notTrain

Next ==
    \/ StartTarget
    \/ Finish
    \/ MaybeRegenerate
    \/ Fit
    \/ MaybeEvaluate
    \/ Promote
    \/ NoPromote
    \/ Exhaust
    \/ NextEpoch

Spec == TrainInit /\ [][Next]_vars

----------------------------------------------------------------------------
(* Reference definitions the claims are stated with *)

\* the normalized form of one character
ExpectedChar(ch) ==
    IF ch \in {Underscore, Hyphen} THEN Space
    ELSE IF ch >= UpperA /\ ch <= UpperZ THEN ch + CaseOffset
    ELSE ch

ExpectedToken(l) == [i \in 1..Len(l) |-> ExpectedChar(l[i])]

IsSeparator(ch) == ch \in {Underscore, Hyphen}
IsUpper(ch) == ch >= UpperA /\ ch <= UpperZ
IsLower(ch) == ch >= LowerA /\ ch <= LowerA + (UpperZ - UpperA)

\* two tokens that differ only in letter case and in underscore versus hyphen
SameUpToCaseAndSeparator(s, t) ==
    /\ Len(s) = Len(t)
    /\ \A i \in 1..Len(s) :
          \/ s[i] = t[i]
          \/ IsSeparator(s[i]) /\ IsSeparator(t[i])
          \/ IsUpper(s[i]) /\ t[i] = s[i] + CaseOffset
          \/ IsLower(s[i]) /\ t[i] = s[i] - CaseOffset

\* the concepts below c: reachable from c over one or more hyponym links
RECURSIVE Below(_, _)
Below(S, n) ==
    IF n = 0 THEN S
    ELSE Below(S \cup {d \in Concepts : \E p \in S : p \in Range(hypernyms[d])}, n - 1)

HyponymClosure(c) == Below({c}, MaxConcepts) \ {c}

\* the distinct normalized tokens of c and of the concepts below it
DistinctTokens(c) ==
    {ExpectedToken(l) : l \in UNION {sense_lemmas(d) : d \in {c} \cup HyponymClosure(c)}}

----------------------------------------------------------------------------
(* Claims about src/wordnet.py *)

\* C5: every evaluate(c), the first and every repeated one, whatever was evaluated
\* in between, returns the number of distinct normalized lemmas of c and of its
\* hyponym closure.
C5_EvaluateCountsDistinctTokens ==
    spec_sense # None => spec_ret = Cardinality(DistinctTokens(spec_sense))

\* C5 witness: a repeated call, after other concepts were evaluated, on a concept
\* with hyponyms whose lemmas collapse under normalization
C5_Witness ==
    /\ spec_sense # None
    /\ spec_hit
    /\ Cardinality(DOMAIN cache) >= 3
    /\ HyponymClosure(spec_sense) # {}
    /\ spec_ret = Cardinality(DistinctTokens(spec_sense))
    /\ spec_ret < Cardinality(UNION {sense_lemmas(d) : d \in {spec_sense} \cup HyponymClosure(spec_sense)})

\* C6: hypernym_chain(c) starts with c, steps to the first hypernym each time, ends
\* at a concept without hypernyms and repeats no concept.
C6_ChainFollowsFirstHypernyms ==
    chain_arg # None =>
        /\ Len(chain_ret) >= 1
        /\ Len(chain_ret) <= MaxConcepts
        /\ chain_ret[1] = chain_arg
        /\ \A i \in 1..(Len(chain_ret) - 1) :
              /\ Len(hypernyms[chain_ret[i]]) > 0
              /\ chain_ret[i + 1] = hypernyms[chain_ret[i]][1]
        /\ hypernyms[chain_ret[Len(chain_ret)]] = <<>>
        /\ \A i, j \in 1..Len(chain_ret) : i # j => chain_ret[i] # chain_ret[j]

\* C6 witness: a chain of three concepts from a concept with two hypernyms
C6_Witness ==
    /\ chain_arg # None
    /\ Len(hypernyms[chain_arg]) = 2
    /\ Len(chain_ret) >= 3
    /\ chain_ret[2] = hypernyms[chain_arg][1]

\* C7: a concept returned by random_non_hyponym(a) lies in the root's hyponym
\* closure and outside the hyponym closure of a.
C7_OddElementOutsideAncestor ==
    rnh_pc = "done" =>
        /\ rnh_result \in get_all_hyponyms_from_sense(grs_root)
        /\ rnh_result \notin get_all_hyponyms_from_sense(rnh_synset)

\* C7 witness: a is below the root and has hyponyms, and a concept was returned
C7_Witness ==
    /\ rnh_pc = "done"
    /\ rnh_synset \in entity_hyps
    /\ get_all_hyponyms_from_sense(rnh_synset) # {}
    /\ rnh_result # rnh_synset
    /\ rnh_result \notin get_all_hyponyms_from_sense(rnh_synset)

\* every concept random_non_hyponym can draw is rejected
AllDrawsRejected ==
    /\ Cardinality(entity_hyps) >= 2
    /\ \A h \in entity_hyps : ~accepts(rnh_synset, h)

\* C8: the loop of random_non_hyponym stops, also when the ancestor covers the
\* whole closure of the root.
C8_RejectionLoopStops ==
    (rnh_pc = "loop" /\ AllDrawsRejected) ~> (rnh_pc # "loop")

\* C9: normalize_lemma maps each character on its own (underscore and hyphen to a
\* space, capitals to small letters, the rest unchanged), sends tokens that differ
\* only in case and separator to one token, and is idempotent.
C9_NormalizeLemma ==
    /\ norm_calls >= 1 =>
          /\ Len(lemma_out) = Len(lemma_in)
          /\ \A i \in 1..Len(lemma_in) : lemma_out[i] = ExpectedChar(lemma_in[i])
          /\ \A t \in LemmaInputs :
                SameUpToCaseAndSeparator(lemma_in, t) => normalize_lemma(t) = lemma_out
          /\ lemma_in \in {FireEngineUnderscore, FireEngineHyphen} =>
                lemma_out = FireEngineSpace
    /\ norm_calls = 2 => lemma_twice = lemma_out

\* C9 witness: "Fire_Engine" normalized twice
C9_Witness ==
    /\ norm_calls = 2
    /\ lemma_in = FireEngineUnderscore
    /\ lemma_out = FireEngineSpace
    /\ normalize_lemma(FireEngineHyphen) = lemma_out

----------------------------------------------------------------------------
(* Claims about train() of src/multitrain.py *)

\* train is inside the epoch loop of a target
InEpoch == pc \in {"regen", "fit", "eval", "check", "exhaust"}

\* the success rows of a log
SuccessRows(log) == {i \in 1..Len(log) : log[i][4]}

C2_ExhaustionInvariant ==
    [][ /\ (/\ pc = "exhaust"
            /\ epoch = num_epochs - 1
            /\ initial_root_synset = target_start) =>
               /\ pc' = "next_target"
               /\ ti' = ti + 1
               /\ Len(csv') = Len(csv) + 1
               /\ csv'[Len(csv')][4] = FALSE
        /\ (pc = "next_target" /\ pc' = "regen") => best_test_acc' = Sentinel
      ]_vars

\* the place of a concept on a chain (0 when it is not on it)
Place(chain, c) ==
    IF c \in Range(chain) THEN CHOOSE i \in 1..Len(chain) : chain[i] = c ELSE 0

\* C3: inside a target the active concept is on the chain of the target's initial
\* concept, at or below the terminal root.
C3_ActiveBelowTerminalRoot ==
    (InEpoch /\ final_root_synset \in Range(hypernym_chain(target_start))) =>
        /\ initial_root_synset \in Range(hypernym_chain(target_start))
        /\ Place(hypernym_chain(target_start), initial_root_synset)
              <= Place(hypernym_chain(target_start), final_root_synset)

\* C4: the failure row written when the budget runs out names the concept trained
\* in the last epoch (the active concept, before or after a promotion made in that
\* very epoch), with the epoch and the best accuracy.
C4_FailureRowNamesActiveConcept ==
    [][ (pc = "exhaust" /\ pc' = "next_target") =>
            /\ Len(csv') = Len(csv) + 1
            /\ csv'[Len(csv')][1] \in {epoch_root, initial_root_synset}
            /\ csv'[Len(csv')][2] = epoch
            /\ csv'[Len(csv')][3] = best_test_acc
            /\ csv'[Len(csv')][4] = FALSE
      ]_vars

\* the specificity of a concept, from the reference definitions
TrueSpecificity(c) == Cardinality(DistinctTokens(c))

\* the places on the chain of c whose concepts score below the threshold
PlacesBelowThreshold(c) ==
    {i \in 1..Len(hypernym_chain(c)) :
        TrueSpecificity(hypernym_chain(c)[i]) < SpecificityThreshold}

\* a target has just been taken up
TargetResolved == pc = "regen" /\ epoch = 0

\* C10 as stated: an explicit pair gives the terminal root; otherwise it is the first
\* concept below the threshold met walking up the chain from the initial concept.
C10_TerminalRootFirstUpward ==
    TargetResolved =>
        LET target == root_synset_lists[ti]
        IN  IF Len(target) = 2
            THEN final_root_synset = target[2]
            ELSE PlacesBelowThreshold(target[1]) # {} =>
                    final_root_synset =
                        hypernym_chain(target[1])[Min(PlacesBelowThreshold(target[1]))]

\* C10 amended: an explicit pair gives the terminal root; otherwise it is the most
\* general concept of the chain that scores below the threshold (the first one met
\* walking the chain down from its top).
C10_TerminalRootMostGeneral ==
    TargetResolved =>
        LET target == root_synset_lists[ti]
        IN  IF Len(target) = 2
            THEN final_root_synset = target[2]
            ELSE PlacesBelowThreshold(target[1]) # {} =>
                    final_root_synset =
                        hypernym_chain(target[1])[Max(PlacesBelowThreshold(target[1]))]

\* C10 witness: a computed terminal root above the initial concept, on a chain with
\* concepts on both sides of the threshold
C10_Witness ==
    /\ TargetResolved
    /\ Len(root_synset_lists[ti]) = 1
    /\ Cardinality(PlacesBelowThreshold(target_start)) >= 2
    /\ Cardinality(PlacesBelowThreshold(target_start)) < Len(hypernym_chain(target_start))
    /\ final_root_synset # target_start
    /\ final_root_synset =
          hypernym_chain(target_start)[Max(PlacesBelowThreshold(target_start))]


\* C11: a regeneration step at an epoch that is a multiple of the regeneration
\* interval makes both PuzzleSets from the active concept; every training step runs
\* on a training set made from the active concept, and every evaluation (epoch % 100
\* = 99) on a held-out set made from the active concept; so neither set comes from
\* the terminal root while the active concept is another one.
C11_LoadersFromActiveConcept ==
    [][ /\ (pc = "regen" /\ pc' = "fit" /\ epoch % RegenInterval = 0) =>
               /\ loader' = initial_root_synset
               /\ test_loader' = initial_root_synset
        /\ (pc = "fit" /\ pc' = "eval") =>
               /\ loader = initial_root_synset
               /\ (initial_root_synset # final_root_synset => loader # final_root_synset)
        /\ (pc = "eval" /\ pc' = "check" /\ epoch % EvalInterval = EvalPhase) =>
               /\ test_loader = initial_root_synset
               /\ (initial_root_synset # final_root_synset =>
                      test_loader # final_root_synset)
      ]_vars

\* C11 witness: an evaluation is due on a held-out set made from a concept reached
\* by promotion, which is not the terminal root
C11_Witness ==
    /\ pc = "eval"
    /\ epoch % EvalInterval = EvalPhase
    /\ epoch > EvalPhase
    /\ initial_root_synset # target_start
    /\ initial_root_synset # final_root_synset
    /\ loader = initial_root_synset
    /\ test_loader = initial_root_synset


\* an evaluation step: the epoch is on the evaluation cadence
Evaluating == pc = "eval" /\ pc' = "check" /\ epoch % EvalInterval = EvalPhase

\* a step that opens a window: a target is taken up or a concept is promoted
OpensWindow ==
    \/ pc = "next_target" /\ pc' = "regen"
    \/ pc = "check" /\ initial_root_synset' # initial_root_synset

\* C12: at an evaluation the best accuracy becomes the measured accuracy and the
\* checkpoint is written exactly when the measured accuracy is strictly above the
\* best so far, and nothing changes otherwise; a step that opens a window leaves the
\* best accuracy at the sentinel, below every accuracy, so the first evaluation of a
\* window is taken as the best; no other step of a window lowers the best accuracy,
\* and no step of the epoch loop outside evaluations and promotions writes the
\* checkpoint.
C12_BestSoFarRule ==
    [][ /\ Evaluating =>
               /\ test_acc' > best_test_acc =>
                      /\ best_test_acc' = test_acc'
                      /\ best_model' = "model"
                      /\ checkpoint' = <<ti, epoch>> /\ checkpoint' # checkpoint
               /\ test_acc' <= best_test_acc =>
                      UNCHANGED <<best_test_acc, best_model, checkpoint>>
               /\ best_test_acc = Sentinel => best_test_acc' = test_acc'
        /\ OpensWindow =>
               /\ best_test_acc' = Sentinel
               /\ \A acc \in Accs : Sentinel < acc
        /\ (InEpoch /\ ~OpensWindow) => best_test_acc' >= best_test_acc
        /\ (InEpoch /\ ~Evaluating /\ pc # "check") => checkpoint' = checkpoint
      ]_vars

\* C12 witness: the second evaluation of a window measured exactly the best so far,
\* which a first evaluation had set, and wrote nothing
C12_Witness ==
    /\ pc = "check"
    /\ epoch = EvalInterval + EvalPhase
    /\ initial_root_synset = target_start
    /\ test_acc = best_test_acc
    /\ test_acc = SuccessThreshold
    /\ checkpoint = <<ti, EvalPhase>>


\* a promotion step: the test of line 212 passed and the active concept moved
Promotion == pc = "check" /\ initial_root_synset' # initial_root_synset

\* a promotion was made in the current epoch and the epoch has not ended
JustPromoted == pc = "exhaust" /\ epoch_root # initial_root_synset

\* C13: the step that promotes a concept leaves the best accuracy at the sentinel
\* and both PuzzleSets made from the new active concept, whatever the epoch, and no
\* training step or evaluation comes in between: the step ends at the end-of-epoch
\* test, where the tracker and the sets are still in that state.
C13_PromotionResetsAndRegenerates ==
    [][ /\ Promotion =>
               /\ pc' = "exhaust"
               /\ best_test_acc' = Sentinel
               /\ loader' = initial_root_synset'
               /\ test_loader' = initial_root_synset'
               /\ generator_root' = initial_root_synset'
        /\ JustPromoted =>
               /\ best_test_acc = Sentinel
               /\ loader = initial_root_synset
               /\ test_loader = initial_root_synset
      ]_vars

\* C13 witness: a promotion at an epoch off the regeneration cadence has replaced
\* the sets of the mastered concept
C13_Witness ==
    /\ JustPromoted
    /\ epoch % RegenInterval # 0
    /\ Len(csv) >= 1 /\ csv[Len(csv)] = <<epoch_root, epoch, SuccessThreshold + 10, TRUE>>
    /\ best_test_acc = Sentinel
    /\ loader = initial_root_synset /\ loader # epoch_root
    /\ test_loader = initial_root_synset


\* C14: the epoch counter starts again when a concept is promoted: an epoch that
\* begins on an active concept other than the one of the epoch before is epoch 0 of
\* that concept, so that the concept has the whole budget ahead of it.
C14_EpochCounterResetOnPromotion ==
    (pc = "regen" /\ epoch_root # initial_root_synset) => epoch = 0


\* the place of the active concept on the chain of the target's initial concept
ActivePlace == Place(hypernym_chain(target_start), initial_root_synset)

\* C15: inside a target the active concept is on the canonical chain of the
\* target's initial concept; a step that writes a success row moves it up that chain
\* by exactly one place, and no step of the target moves it any other way, so its
\* place never goes down and a concept promoted past is not active again.
C15_NoBacktracking ==
    [][ InEpoch =>
           /\ ActivePlace >= 1
           /\ (Len(csv') > Len(csv) /\ csv'[Len(csv')][4]) =>
                  /\ initial_root_synset' =
                        hypernym_chain(target_start)[ActivePlace + 1]
                  /\ csv'[Len(csv')][1] = hypernym_chain(target_start)[ActivePlace]
           /\ (pc' # "next_target" /\ initial_root_synset' # initial_root_synset) =>
                  /\ Len(csv') > Len(csv) /\ csv'[Len(csv')][4]
                  /\ target_start' = target_start
                  /\ ActivePlace' = ActivePlace + 1
      ]_vars

\* C15 witness: two promotions in one target, at successive evaluations; the active
\* concept is two places up the chain of the target's initial concept
C15_Witness ==
    /\ pc = "exhaust"
    /\ ActivePlace = 3
    /\ Len(csv) = 2
    /\ csv[1] = <<target_start, EvalPhase, SuccessThreshold + 10, TRUE>>
    /\ csv[2][1] = hypernym_chain(target_start)[2]
    /\ csv[2][4]


----------------------------------------------------------------------------
(* Claims about GetRandomSynset.random_synset_with_specificity *)

\* the concepts of the closure of the object's root whose true score is in the band
Eligible ==
    {c \in HyponymClosure(grs_root) :
        band_lower <= TrueSpecificity(c) /\ TrueSpecificity(c) <= band_upper}

\* C16: after random_synset_with_specificity(lower, upper) with lower <= upper the
\* result is None exactly when no concept of the root's hyponym closure scores
\* within [lower, upper], and otherwise it is a concept of the closure whose score s
\* has lower <= s <= upper.
C16_BandSampling ==
    (grs_root # None /\ band_lower # Unbound /\ band_lower <= band_upper) =>
        /\ band_result = None <=> Eligible = {}
        /\ band_result # None => band_result \in Eligible

\* C16 witness: a band of more than one score returned a concept that scores exactly
\* the upper end, from a closure that also holds a concept outside the band
C16_Witness ==
    /\ grs_root # None
    /\ band_lower # Unbound /\ band_lower < band_upper
    /\ band_result # None
    /\ TrueSpecificity(band_result) = band_upper
    /\ HyponymClosure(grs_root) \ Eligible # {}


----------------------------------------------------------------------------
(* Claims about get_all_hyponyms_from_sense *)

\* C17: get_all_hyponyms_from_sense(c), as the constructor of GetRandomSynset calls
\* it on its root c, returns a value (the recursion ends) that is exactly the set of
\* the concepts reachable from c by one or more hyponym links: every such concept is
\* in it, nothing else is, and c is not.
C17_HyponymClosure ==
    grs_root # None =>
        /\ entity_hyps = HyponymClosure(grs_root)
        /\ \A d \in Concepts :
              d \in entity_hyps <=>
                 \E p \in entity_hyps \cup {grs_root} : p \in Range(hypernyms[d])
        /\ grs_root \notin entity_hyps
        /\ Cardinality(entity_hyps) <= MaxConcepts - 1

\* C17 witness: the closure holds a concept that is not a direct hyponym of the root
\* and that two paths from the root lead to
C17_Witness ==
    /\ grs_root # None
    /\ \E d \in entity_hyps :
          /\ d \notin hyponyms(grs_root)
          /\ Len(hypernyms[d]) = 2
          /\ Range(hypernyms[d]) \subseteq entity_hyps


----------------------------------------------------------------------------
(* Claims about the cache of a Specificity object *)

\* C18: at all times the keys of the cache are exactly the concepts evaluated so
\* far and every cached value is the true score of its concept; an evaluate call
\* adds no key but its argument, and every entry there before the call is still
\* there with the same value.
C18_CacheInvariant ==
    /\ [](/\ DOMAIN cache = evaluated
          /\ \A k \in DOMAIN cache : cache[k] = TrueSpecificity(k))
    /\ [][ /\ (DOMAIN cache') \ (DOMAIN cache) \subseteq {spec_sense'}
           /\ Cardinality(DOMAIN cache') <= Cardinality(DOMAIN cache) + 1
           /\ \A k \in DOMAIN cache : k \in DOMAIN cache' /\ cache'[k] = cache[k]
         ]_vars

\* C18 witness: every concept has been evaluated, concepts with different scores
\* among them, and the last call found its argument in the cache
C18_Witness ==
    /\ evaluated = Concepts
    /\ DOMAIN cache = Concepts
    /\ spec_hit
    /\ \E k \in Concepts : cache[k] # cache[spec_sense]
    /\ spec_ret = cache[spec_sense]


----------------------------------------------------------------------------
(* Claims about the rows train() writes and about its failures *)

\* the promotions made so far in the current target
PromotionsInTarget == ActivePlace - 1

\* C19: the end-of-epoch test of the last epoch of a target appends one row with
\* that epoch and success = FALSE, whatever the number of promotions made in the
\* target; its accuracy is at most the threshold, and it is the sentinel when a
\* promotion was made in that same epoch; the rows of the target are then one
\* success row for each promotion followed by this row.
C19_FailureRowAtLastEpoch ==
    [][ (pc = "exhaust" /\ epoch = num_epochs - 1) =>
            /\ Len(csv') = Len(csv) + 1
            /\ csv'[Len(csv')][2] = epoch
            /\ csv'[Len(csv')][4] = FALSE
            /\ csv'[Len(csv')][3] <= SuccessThreshold
            /\ JustPromoted => csv'[Len(csv')][3] = Sentinel
            /\ Len(csv) >= PromotionsInTarget
            /\ \A i \in 1..PromotionsInTarget :
                  csv[Len(csv) - PromotionsInTarget + i][4] = TRUE
            /\ Len(csv) > PromotionsInTarget =>
                  csv[Len(csv) - PromotionsInTarget][4] = FALSE
      ]_vars


\* C20: when the promotion test passes on an active concept without hypernyms, the
\* step ends train with an IndexError, the generator's root, the active concept and
\* the rows written being what they were; and train takes no step after an error,
\* so no later epoch and no later target is taken up.
C20_PromotionAtTopFails ==
    [][ /\ (/\ pc = "check"
            /\ best_test_acc > SuccessThreshold
            /\ Len(hypernyms[initial_root_synset]) = 0) =>
               /\ pc' = "crashed" /\ error' = "IndexError"
               /\ generator_root' = generator_root
               /\ initial_root_synset' = initial_root_synset
               /\ csv' = csv
               /\ epoch' = epoch /\ ti' = ti
        /\ pc # "crashed"
      ]_vars

\* C20 witness: train stopped with an IndexError at the top of a chain it had
\* climbed, with a target still to come; the last row is the success row of the
\* concept below, and the generator is still on the top concept
C20_Witness ==
    /\ pc = "crashed" /\ error = "IndexError"
    /\ ti < Len(root_synset_lists)
    /\ Len(hypernyms[initial_root_synset]) = 0
    /\ initial_root_synset # target_start
    /\ generator_root = initial_root_synset
    /\ Len(csv) >= 1 /\ csv[Len(csv)][4] /\ csv[Len(csv)][1] # initial_root_synset


----------------------------------------------------------------------------
(* Claims about specificity along the hierarchy *)

\* what a fresh Specificity object returns for a concept
Score(c) == evaluate(EmptyCache, c)

\* the places of the chain of c whose concepts a fresh Specificity object scores
\* below the threshold
ScoredBelowThreshold(c) ==
    {i \in 1..Len(hypernym_chain(c)) : Score(hypernym_chain(c)[i]) < SpecificityThreshold}

\* C21: a concept never scores above any of its hypernyms; so the scores along the
\* chain of a target's initial concept never decrease, the places that score below
\* 700 are the first k places of the chain, and when there is such a place the
\* terminal root computed for the target is the concept at place k, the most
\* general of them.
C21_SpecificityMonotone ==
    (TargetResolved /\ Len(root_synset_lists[ti]) # 2) =>
        LET chain == hypernym_chain(target_start)
            k == Cardinality(ScoredBelowThreshold(target_start))
        IN  /\ \A d \in Concepts : \A c \in Range(hypernyms[d]) : Score(d) <= Score(c)
            /\ \A i \in 1..(Len(chain) - 1) : Score(chain[i]) <= Score(chain[i + 1])
            /\ ScoredBelowThreshold(target_start) = 1..k
            /\ k > 0 => final_root_synset = chain[k]

\* C21 witness: a chain of at least three concepts whose scores rise, with two or
\* more of them below the threshold and the top above it; the terminal root is the
\* last of those below
C21_Witness ==
    /\ TargetResolved
    /\ Len(root_synset_lists[ti]) = 1
    /\ Len(hypernym_chain(target_start)) >= 3
    /\ Cardinality(ScoredBelowThreshold(target_start)) >= 2
    /\ Cardinality(ScoredBelowThreshold(target_start)) < Len(hypernym_chain(target_start))
    /\ Score(target_start) < Score(final_root_synset)
    /\ final_root_synset =
          hypernym_chain(target_start)[Cardinality(ScoredBelowThreshold(target_start))]

============================================================================
